---------------------------- MODULE Spec2Model ----------------------------
(***************************************************************************)
(* Playback scheduling engine of the MIDI file player                      *)
(* (Software/For MIDI Files Playback/cynthia_file_player.py).              *)
(*                                                                         *)
(* The model has three kinds of processes:                                 *)
(*   - the control thread (the Tk main thread), which issues the public    *)
(*     calls of MIDIPlayer: load, play, pause, stop, seek, rewind, skip;   *)
(*   - the pacing loops, one per threading.Thread(target=self._run);       *)
(*   - the wall clock (time.perf_counter), a discrete counter.             *)
(* Every "with self._lock:" block is one atomic step; everything a loop    *)
(* does between two such blocks that reads or writes shared state (the     *)
(* stop flag, the pause gate, the clock, the sink) is a step of its own.   *)
(* Python list indices are kept 0-based: messages[i] is MsgAt(m, i).       *)
(***************************************************************************)
EXTENDS Integers, Sequences, FiniteSets, TLC

(***************************************************************************)
(* Bounds of the model.                                                    *)
(***************************************************************************)
MaxThreads == 2      \* pacing loops ever spawned
MaxCalls   == 3      \* control calls ever issued
MaxNow     == 3      \* last instant of the discrete clock
MaxFaults  == 1      \* lost writes and uncaught exceptions ever injected

(***************************************************************************)
(* PlayerState, and None for an absent seek target (targets are >= 0).     *)
(***************************************************************************)
STOPPED == "stopped"
PLAYING == "playing"
PAUSED  == "paused"
None    == -1

Threads == 1 .. MaxThreads

(***************************************************************************)
(* The gain _volume is a float in [0.0, 1.0].  The model keeps a gain as   *)
(* the fraction <<k, den>>, and int(raw[2] * volume) as (raw[2] * k) \div  *)
(* den.  The denominators are GainDen, a power of two, for which the       *)
(* floats k / GainDen and their products with a byte are exact, and        *)
(* SliderMax, the v / 127 of the volume slider, for which the truncated    *)
(* double product equals the exact quotient for all 128 x 128 pairs of a   *)
(* byte and a slider position.                                             *)
(***************************************************************************)
GainDen   == 8
SliderMax == 127

(***************************************************************************)
(* Flattened tracks: lists of (abs_time_s, raw_bytes), as _flatten returns *)
(* them (non-decreasing in time).  One time unit of the model is one       *)
(* second of the tests' scenario 0.0 / 0.5 / 1.0 scaled to integers.       *)
(***************************************************************************)
NoteOn(k)  == <<144, k, 100>>
NoteOff(k) == <<128, k, 0>>

TrackEmpty == << >>
TrackABC   == << <<0, NoteOn(60)>>, <<1, NoteOff(60)>>, <<2, NoteOn(62)>> >>
TrackTie   == << <<1, NoteOn(64)>>, <<1, NoteOn(67)>> >>
Tracks     == {TrackEmpty, TrackABC, TrackTie}

\* seek() arguments tried, some outside [0, duration]
SeekArgs == {-1, 1, 3}

Max(a, b) == IF a >= b THEN a ELSE b
Min(a, b) == IF a <= b THEN a ELSE b

MsgAt(m, i)   == m[i + 1]
MsgTime(m, i) == m[i + 1][1]

\* _find_index: the first index whose time is >= pos, len(messages) if none
find_index(messages, pos) ==
    LET hits == {i \in 0 .. Len(messages) - 1 : MsgTime(messages, i) >= pos}
    IN  IF hits = {} THEN Len(messages)
        ELSE CHOOSE i \in hits : \A j \in hits : i <= j

\* _apply_volume (lines 332-337): a control change 7 of at least 3 bytes
\* gets its value scaled, truncated and clamped, and is rebuilt from its
\* first three bytes; any other message is returned as it is
IsVolumeCC(raw) ==
    Len(raw) >= 3 /\ raw[1] \div 16 = 11 /\ raw[2] = 7

\* variant: every control change is scaled, whatever its controller
apply_volume_any_controller(raw, volume) ==
    IF Len(raw) >= 3 /\ raw[1] \div 16 = 11
    THEN <<raw[1], raw[2],
           Max(0, Min(127, (raw[3] * volume[1]) \div volume[2]))>>
    ELSE raw

\* variant: the gain taken on a scale of 0 to 2, and no clamp
apply_volume_doubled(raw, volume) ==
    IF IsVolumeCC(raw)
    THEN <<raw[1], raw[2], (raw[3] * volume[1] * 2) \div volume[2]>>
    ELSE raw

apply_volume(raw, volume) ==
    IF IsVolumeCC(raw)
    THEN LET scaled == (raw[3] * volume[1]) \div volume[2]
         IN  <<raw[1], raw[2], Max(0, Min(127, scaled))>>
    ELSE raw

\* load: duration = messages[-1][0] if messages else 0.0
DurationOf(messages) ==
    IF Len(messages) = 0 THEN 0 ELSE messages[Len(messages)][1]

VARIABLES
    player,   \* the fields of the MIDIPlayer object
    th,       \* th[t]: locals of pacing loop t, and what it has emitted
    ctl,      \* the control thread: the call in progress, calls issued
    now,      \* time.perf_counter()
    ser       \* the MIDISerial object (the sink)

vars == <<player, th, ctl, now, ser>>

(***************************************************************************)
(* MIDISerial (lines 43-74).  open: a port is set and is open; last: the   *)
(* bytes the port received as its last message; log, job, evs and ops      *)
(* belong to the byte-wise view of SpecSink.  send (lines 64-70) is "with  *)
(* self._lock: write": where nothing else is looking at the lock it is one *)
(* step, and all_sound_off (lines 72-74), sixteen send calls by one        *)
(* thread, is taken with the step that calls it.                           *)
(***************************************************************************)
Channels == 16

\* the threads that use the sink: the pacing loop, and the thread of the
\* control calls and of the connect button
Writers == {"loop", "ui"}

\* what a thread is doing with the sink: op is the method it is in, queue
\* the messages it still passes to send, k the bytes of the first of them
\* that port.write has put out (for connect and disconnect: the statements
\* done), in whether it is inside "with self._lock"
NoJob == [op |-> "idle", queue |-> << >>, k |-> 0, in |-> FALSE]

Ser0 ==
    [open |-> TRUE, last |-> << >>, log |-> << >>,
     job |-> [w \in Writers |-> NoJob], evs |-> 0, ops |-> 0]

\* send(data) on an open port, no exception
send(s, data) == [s EXCEPT !.last = data]

\* line 74: bytes([0xB0 | ch, 120, 0])
sound_off_bytes(ch) == <<176 + ch, 120, 0>>

\* variant: all_sound_off that sends nothing
sound_off_skipped(s) == s

\* variant: the sweep leaves out channel 15
RECURSIVE sound_off_short(_)
sound_off_short(ch) ==
    IF ch >= Channels - 1 THEN << >>
    ELSE <<sound_off_bytes(ch)>> \o sound_off_short(ch + 1)

\* lines 73-74: the messages sent for the channels ch, ch + 1, ... 
RECURSIVE sound_off_from(_)
sound_off_from(ch) ==
    IF ch >= Channels THEN << >>
    ELSE <<sound_off_bytes(ch)>> \o sound_off_from(ch + 1)

RECURSIVE send_each(_, _, _)
send_each(s, msgs, k) ==
    IF k > Len(msgs) THEN s ELSE send_each(send(s, msgs[k]), msgs, k + 1)

all_sound_off(s) == send_each(s, sound_off_from(0), 1)

(***************************************************************************)
(* Locals of a pacing loop.  it is the range iterator's next value (the    *)
(* for statement rebinds i from it on every iteration, whatever was        *)
(* assigned to i in the body); cur is the index msg_time and raw were      *)
(* unpacked from (line 270).  The fields from sent on record what the     *)
(* loop did and what was called while it ran; no step reads them:          *)
(*   sent     indices of the events written to the sink, in order          *)
(*   out      the bytes passed to send() for them (line 306)               *)
(*   posLog   the arguments of every on_position call, in order            *)
(*   fin      number of on_finished calls                                  *)
(*   calls    control calls issued while the loop was alive                *)
(*   cut      stop / skip calls, and load calls made in Playing or Paused, *)
(*            issued before the last event was sent                        *)
(*   first    the start index resolved from the position (line 249)        *)
(*   seekAt   Len(sent) when the loop last consumed a seek, target its     *)
(*            target                                                       *)
(*   alone    no other pacing loop was alive during this loop's life       *)
(*   exitState  the transport state the exit path found (line 319)         *)
(*   playPos  the position when play() spawned the loop                    *)
(*   afterFail  play() spawned the loop right after a load() that raised   *)
(*   lost     the send() calls (by their place in sent) whose write did    *)
(*            not reach the port, and why                                  *)
(*   faulted  an exception ended the thread                                *)
(*   offs     number of all_sound_off calls the loop made, off the messages *)
(*            its last one sent, seeks the number of seek targets it took   *)
(*   tail     the message the loop last sent                                *)
(*   covered  seek() calls made since the take before, at its last take    *)
(*   prev     the control call made just before the play() that spawned it *)
(*   held     pause() has put the transport into Paused and no play(),     *)
(*            stop() or skip() was called since; burst counts the events   *)
(*            the loop has sent since that pause()                         *)
(* lk: the thread is inside a with self._lock block of MIDIPlayer, sk: it  *)
(* is inside one of MIDISerial; both are taken by the acquire steps of     *)
(* SpecLock only, and every step of the loop leaves its block.             *)
(***************************************************************************)
NoThread ==
    [pc |-> "none", messages |-> << >>, pos |-> 0, it |-> 0, n |-> 0,
     i |-> 0, cur |-> 0, t0 |-> 0, seek |-> None, data |-> << >>,
     was_playing |-> FALSE,
     sent |-> << >>, out |-> << >>, posLog |-> << >>, fin |-> 0, calls |-> {}, cut |-> {},
     first |-> 0, seekAt |-> None, target |-> None, alone |-> TRUE,
     exitState |-> "none", playPos |-> 0, afterFail |-> FALSE,
     lost |-> {}, faulted |-> FALSE,
     offs |-> 0, off |-> << >>, seeks |-> 0, tail |-> << >>, covered |-> 0,
     prev |-> "none", held |-> FALSE, burst |-> 0,
     lk |-> FALSE, sk |-> FALSE]

Alive(t) == th[t].pc \notin {"none", "done"}
Live     == {t \in Threads : Alive(t)}

\* the last event of the loop's sequence has been sent
SentLast(r) ==
    \E k \in 1 .. Len(r.sent) : r.sent[k] = Len(r.messages) - 1

\* note a control call on every live loop (history only)
Noted(name) ==
    [t \in Threads |->
        IF Alive(t)
        THEN [th[t] EXCEPT
                !.calls = @ \cup {name},
                !.cut   = IF /\ \/ name = "stop"
                                \/ (name = "skip" /\ player.state = PLAYING)
                                \/ (name = "load" /\ player.state # STOPPED)
                             /\ Len(th[t].messages) > 0
                             /\ ~SentLast(th[t])
                          THEN @ \cup {name} ELSE @,
                !.held  = IF name = "pause" /\ player.state = PLAYING
                          THEN TRUE
                          ELSE IF name \in {"play", "stop", "skip"}
                          THEN FALSE ELSE @,
                !.burst = IF name = "pause" /\ player.state = PLAYING
                          THEN 0 ELSE @]
        ELSE th[t]]

(***************************************************************************)
(* __init__ (lines 93-116), and the first load (lines 132-141) of any of   *)
(* the tracks: the empty track is the player as constructed.               *)
(***************************************************************************)
\* the control thread before its first call.  The fields from raw on hold
\* the argument and the result of a function it calls on its own:
\* _apply_volume(raw) under the gain gain gives data; _flatten(mid) gives
\* flat, flatPrev is what the call before gave, flatN counts the calls,
\* flatAt holds the places in the file the pairs of flat came from.
\* wrote: the messages the last call sent; target: the target the last
\* seek() stored; unseen: seek() calls since a loop last took a target;
\* run: the instants of the clock that passed while the state was not Paused
\* (counted by TickUnpaused only); lk, sk: the control thread is inside a
\* with self._lock block of MIDIPlayer, of MIDISerial (SpecLock only);
\* queue: the queue list widget of the window the control thread runs
NoFile == [tpb |-> 1, tracks |-> << >>]

\* QueueList.__init__ (lines 434-439): _items, and _rows (created by the
\* first _make_row, lines 509-511).  shown holds the rows whose widgets
\* exist: the path a row displays and the index its bindings captured
\* (i=idx, lines 501-503).  made counts the rows ever made; hit, was and
\* wasRows record the row whose remove button was clicked last and the two
\* lists before the click.
NoRow  == [id |-> 0, path |-> "", i |-> 0]
Queue0 ==
    [items |-> << >>, rows |-> << >>, shown |-> {}, made |-> 0,
     hit |-> NoRow, was |-> << >>, wasRows |-> << >>]

Ctl0 ==
    [pc |-> "idle", last |-> "init", n |-> 0, noop |-> FALSE,
     silenced |-> FALSE, seeked |-> FALSE, ret |-> None,
     raw |-> << >>, data |-> << >>, gain |-> <<0, 1>>,
     mid |-> NoFile, flat |-> << >>, flatPrev |-> << >>, flatN |-> 0,
     wrote |-> << >>, target |-> None, unseen |-> 0, flatAt |-> << >>,
     run |-> 0, lk |-> FALSE, sk |-> FALSE, queue |-> Queue0]

Init ==
    /\ \E m \in Tracks :
          player = [state |-> STOPPED, stop_flag |-> FALSE, pause_evt |-> TRUE,
                    thread |-> 0, messages |-> m, duration |-> DurationOf(m),
                    pos |-> 0, seek_to |-> None, volume |-> <<GainDen, GainDen>>]
    /\ th  = [t \in Threads |-> NoThread]
    /\ ctl = Ctl0
    /\ now = 0
    /\ ser = Ser0

\* the control thread is between two calls; it issues MaxCalls calls
Idle    == ctl.pc = "idle"
CanCall == Idle /\ ctl.n < MaxCalls

Called(name) ==
    [ctl EXCEPT !.last = name, !.n = @ + 1, !.silenced = FALSE,
                !.noop = FALSE, !.seeked = @ \/ name = "seek", !.ret = None,
                !.wrote = << >>, !.lk = FALSE, !.sk = FALSE]

(***************************************************************************)
(* load (lines 132-141): parse and flatten outside the lock, then replace  *)
(* the session under the lock, and return the duration (line 141).         *)
(***************************************************************************)
\* variant: load that keeps the position
load_keeping_position(p, messages) ==
    [p EXCEPT !.messages = messages, !.duration = DurationOf(messages)]

load(p, messages) ==
    [p EXCEPT !.messages = messages, !.duration = DurationOf(messages),
              !.pos = 0]

LoadCall ==
    /\ Idle
    /\ \E m \in Tracks : player' = load(player, m)
    /\ th' = Noted("load")
    /\ ctl' = [Called("load") EXCEPT !.ret = player'.duration]
    /\ UNCHANGED <<now, ser>>

Load == ctl.n < MaxCalls /\ LoadCall

(***************************************************************************)
(* play (lines 143-156), one block under the lock.                         *)
(***************************************************************************)
Spawned == {t \in Threads : th[t].pc # "none"}
NextThread == Cardinality(Spawned) + 1

play_resume(p) == [p EXCEPT !.state = PLAYING, !.pause_evt = TRUE]

play_start(p, t) ==
    [p EXCEPT !.state = PLAYING, !.stop_flag = FALSE, !.pause_evt = TRUE,
              !.thread = t]

PlayCall ==
    /\ Idle
    /\ ctl' = Called("play")
    /\ UNCHANGED <<now, ser>>
    /\ \/ /\ player.state = PLAYING
          /\ th' = Noted("play")
          /\ UNCHANGED player
       \/ /\ player.state = PAUSED
          /\ player' = play_resume(player)
          /\ th' = Noted("play")
       \/ /\ player.state = STOPPED
          /\ NextThread <= MaxThreads
          /\ player' = play_start(player, NextThread)
          /\ th' = [t \in Threads |->
                      IF t = NextThread
                      THEN [NoThread EXCEPT !.pc = "start",
                                            !.alone = (Live = {}),
                                            !.playPos = player.pos,
                                            !.prev = ctl.last,
                                            !.afterFail =
                                               (ctl.last = "load_error")]
                      ELSE [Noted("play")[t] EXCEPT
                                !.alone = @ /\ ~Alive(t)]]

Play == ctl.n < MaxCalls /\ PlayCall

(***************************************************************************)
(* pause (lines 158-163), one block under the lock; all_sound_off is       *)
(* called inside it.                                                       *)
(***************************************************************************)
\* variant: pause without the state test of line 160
pause_unguarded(p) == [p EXCEPT !.state = PAUSED, !.pause_evt = FALSE]

\* variant: pause that leaves the pause gate open
pause_open(p) == IF p.state = PLAYING THEN [p EXCEPT !.state = PAUSED] ELSE p

pause(p) ==
    IF p.state = PLAYING
    THEN [p EXCEPT !.state = PAUSED, !.pause_evt = FALSE]
    ELSE p

Pause ==
    /\ CanCall
    /\ player' = pause(player)
    /\ th' = Noted("pause")
    /\ ctl' = [Called("pause") EXCEPT
                !.silenced = (player.state = PLAYING),
                !.noop = (player.state # PLAYING),
                !.wrote = IF player.state = PLAYING
                          THEN sound_off_from(0) ELSE << >>]
    /\ ser' = IF player.state = PLAYING THEN all_sound_off(ser) ELSE ser
    /\ UNCHANGED now

(***************************************************************************)
(* stop (lines 165-171): the two Event.set() calls, then state and         *)
(* position under the lock, then all_sound_off.                            *)
(***************************************************************************)
stop_events(p) == [p EXCEPT !.stop_flag = TRUE, !.pause_evt = TRUE]

stop_locked(p) == [p EXCEPT !.state = STOPPED, !.pos = 0]

stop(p) == stop_locked(stop_events(p))

StopEvents ==
    /\ CanCall
    /\ player' = stop_events(player)
    /\ th' = Noted("stop")
    /\ ctl' = [Called("stop") EXCEPT !.pc = "stop_locked"]
    /\ UNCHANGED <<now, ser>>

StopLocked ==
    /\ ctl.pc = "stop_locked"
    /\ player' = stop_locked(player)
    /\ ctl' = [ctl EXCEPT !.pc = "stop_off", !.lk = FALSE]
    /\ UNCHANGED <<th, now, ser>>

StopOff ==
    /\ ctl.pc = "stop_off"
    /\ ctl' = [ctl EXCEPT !.pc = "idle", !.silenced = TRUE,
                          !.wrote = sound_off_from(0), !.sk = FALSE]
    /\ ser' = all_sound_off(ser)
    /\ UNCHANGED <<player, th, now>>

(***************************************************************************)
(* seek (lines 176-178), rewind (lines 173-174), skip (lines 184-187)      *)
(***************************************************************************)
\* variant: seek that clamps at 0 only
seek_floor_only(p, seconds) == [p EXCEPT !.seek_to = Max(0, seconds)]

seek(p, seconds) == [p EXCEPT !.seek_to = Max(0, Min(seconds, p.duration))]

rewind(p) == seek(p, 0)

SeekCall ==
    /\ Idle
    /\ \E s \in SeekArgs : player' = seek(player, s)
    /\ th' = Noted("seek")
    /\ ctl' = [Called("seek") EXCEPT !.target = player'.seek_to,
                                     !.unseen = @ + 1]
    /\ UNCHANGED <<now, ser>>

Seek == ctl.n < MaxCalls /\ SeekCall

Rewind ==
    /\ CanCall
    /\ player' = rewind(player)
    /\ th' = Noted("seek")
    /\ ctl' = [Called("seek") EXCEPT !.target = player'.seek_to,
                                     !.unseen = @ + 1]
    /\ UNCHANGED <<now, ser>>

\* variant: skip that also sets the state, as stop does
skip_stopping(p) ==
    [p EXCEPT !.stop_flag = TRUE, !.pause_evt = TRUE, !.state = STOPPED,
              !.pos = 0]

skip(p) == [p EXCEPT !.stop_flag = TRUE, !.pause_evt = TRUE]

SkipCall ==
    /\ Idle
    /\ player' = skip(player)
    /\ th' = Noted("skip")
    /\ ctl' = Called("skip")
    /\ UNCHANGED <<now, ser>>

Skip == ctl.n < MaxCalls /\ SkipCall

(***************************************************************************)
(* _run (lines 244-324), one pacing loop t.                                *)
(***************************************************************************)
Step(t, r) == th' = [th EXCEPT ![t] = [r EXCEPT !.lk = FALSE, !.sk = FALSE]]

\* lines 245-247: snapshot under the lock
RunStart(t) ==
    /\ th[t].pc = "start"
    /\ Step(t, [th[t] EXCEPT !.pc = "anchor",
                             !.messages = player.messages,
                             !.pos = player.pos])
    /\ UNCHANGED <<player, ctl, now, ser>>

\* lines 249-252: idx, t0, and the range object of the for statement
RunAnchor(t) ==
    /\ th[t].pc = "anchor"
    /\ LET idx == find_index(th[t].messages, th[t].pos)
       IN  Step(t, [th[t] EXCEPT !.pc = "for", !.it = idx,
                                 !.n = Len(th[t].messages),
                                 !.t0 = now - th[t].pos, !.first = idx])
    /\ UNCHANGED <<player, ctl, now, ser>>

\* variant: the iterator steps over an event
for_next_skipping(it) == it + 2

\* the loop variable after one more iteration of range(idx, len(messages))
for_next(it) == it + 1

\* lines 252-255: next value of the iterator, then the stop check
RunFor(t) ==
    /\ th[t].pc = "for"
    /\ IF th[t].it >= th[t].n
       THEN Step(t, [th[t] EXCEPT !.pc = "fin"])
       ELSE Step(t, [th[t] EXCEPT
                !.i  = th[t].it,
                !.it = for_next(th[t].it),
                !.pc = IF player.stop_flag THEN "fin" ELSE "seek_top"])
    /\ UNCHANGED <<player, ctl, now, ser>>

\* the loop has called all_sound_off once more (history only)
Silenced(r) ==
    [r EXCEPT !.offs = @ + 1, !.off = sound_off_from(0),
              !.tail = sound_off_from(0)[Len(sound_off_from(0))]]

\* the loop took the pending target, if there was one (history only)
Taken(c, p) == IF p.seek_to # None THEN [c EXCEPT !.unseen = 0] ELSE c

\* variant: the pending seek is read and left in place
take_seek_kept(p) == p

\* lines 258-260: read and clear the pending seek under the lock
take_seek(p) == [p EXCEPT !.seek_to = None]

RunSeekTop(t) ==
    /\ th[t].pc = "seek_top"
    /\ player' = take_seek(player)
    /\ Step(t, [th[t] EXCEPT
            !.seek = player.seek_to,
            !.covered = IF player.seek_to # None THEN ctl.unseen ELSE @,
            !.pc = "seek_top2"])
    /\ ctl' = Taken(ctl, player)
    /\ UNCHANGED <<now, ser>>

\* lines 261-270: apply the seek (or not), then unpack messages[i]
RunSeekTop2(t) ==
    /\ th[t].pc = "seek_top2"
    /\ IF th[t].seek # None
       THEN LET idx == find_index(th[t].messages, th[t].seek)
            IN  Step(t, [th[t] EXCEPT
                    !.pos = th[t].seek, !.i = idx, !.t0 = now - th[t].seek,
                    !.seekAt = Len(th[t].sent), !.target = th[t].seek,
                    !.seeks = @ + 1,
                    !.pc = "seek_top_off"])
       ELSE Step(t, [th[t] EXCEPT !.cur = th[t].i, !.pc = "wait"])
    /\ UNCHANGED <<player, ctl, now, ser>>

\* lines 266-270: all_sound_off, the bound check, messages[i]
RunSeekTopOff(t) ==
    /\ th[t].pc = "seek_top_off"
    /\ LET r == Silenced(th[t])
       IN  IF r.i >= Len(r.messages)
           THEN Step(t, [r EXCEPT !.pc = "fin"])
           ELSE Step(t, [r EXCEPT !.cur = r.i, !.pc = "wait"])
    /\ ser' = all_sound_off(ser)
    /\ UNCHANGED <<player, ctl, now>>

\* lines 274-275: the stop check at the top of the wait loop
RunWait(t) ==
    /\ th[t].pc = "wait"
    /\ Step(t, [th[t] EXCEPT
            !.pc = IF player.stop_flag THEN "after_wait" ELSE "gate"])
    /\ UNCHANGED <<player, ctl, now, ser>>

\* line 276: self._pause_evt.wait() returns once the gate is open; the
\* stop flag is not looked at while the thread is blocked here
RunGate(t) ==
    /\ th[t].pc = "gate"
    /\ player.pause_evt
    /\ Step(t, [th[t] EXCEPT !.pc = "wait_stop"])
    /\ UNCHANGED <<player, ctl, now, ser>>

\* lines 277-278: stop check after the gate
RunWaitStop(t) ==
    /\ th[t].pc = "wait_stop"
    /\ Step(t, [th[t] EXCEPT
            !.pc = IF player.stop_flag THEN "after_wait" ELSE "wait_seek"])
    /\ UNCHANGED <<player, ctl, now, ser>>

\* lines 281-283: re-check seek under the lock
RunWaitSeek(t) ==
    /\ th[t].pc = "wait_seek"
    /\ player' = take_seek(player)
    /\ Step(t, [th[t] EXCEPT
            !.seek = player.seek_to,
            !.covered = IF player.seek_to # None THEN ctl.unseen ELSE @,
            !.pc = "wait_seek2"])
    /\ ctl' = Taken(ctl, player)
    /\ UNCHANGED <<now, ser>>

\* lines 284-298: apply the seek and break, or compare the clock
RunWaitSeek2(t) ==
    /\ th[t].pc = "wait_seek2"
    /\ IF th[t].seek # None
       THEN LET idx == find_index(th[t].messages, th[t].seek)
            IN  Step(t, [th[t] EXCEPT
                    !.pos = th[t].seek, !.i = idx, !.t0 = now - th[t].seek,
                    !.seekAt = Len(th[t].sent), !.target = th[t].seek,
                    !.seeks = @ + 1,
                    !.pc = "wait_off"])
       ELSE LET elapsed == now - th[t].t0
                delta   == MsgTime(th[t].messages, th[t].cur) - elapsed
            IN  Step(t, [th[t] EXCEPT
                    !.pc = IF delta <= 0 THEN "after_wait" ELSE "wait"])
    /\ UNCHANGED <<player, ctl, now, ser>>

\* lines 289-290: all_sound_off, break
RunWaitOff(t) ==
    /\ th[t].pc = "wait_off"
    /\ Step(t, [Silenced(th[t]) EXCEPT !.pc = "after_wait"])
    /\ ser' = all_sound_off(ser)
    /\ UNCHANGED <<player, ctl, now>>

\* line 300: the stop check after the wait loop
RunAfterWait(t) ==
    /\ th[t].pc = "after_wait"
    /\ Step(t, [th[t] EXCEPT
            !.pc = IF player.stop_flag THEN "stop_pos" ELSE "apply"])
    /\ UNCHANGED <<player, ctl, now, ser>>

\* lines 301-303: position = elapsed time, break
RunStopPos(t) ==
    /\ th[t].pc = "stop_pos"
    /\ player' = [player EXCEPT !.pos = now - th[t].t0]
    /\ Step(t, [th[t] EXCEPT !.pc = "fin"])
    /\ UNCHANGED <<ctl, now, ser>>

\* the gain line 335 reads: self._volume, without the lock
\* variant: the gain is taken to be 1.0
gain_unity(p) == <<p.volume[2], p.volume[2]>>

gain_read(p) == p.volume

\* lines 305-306: the volume is applied to the bytes unpacked at line 270
RunApply(t) ==
    /\ th[t].pc = "apply"
    /\ Step(t, [th[t] EXCEPT
            !.data = apply_volume(MsgAt(th[t].messages, th[t].cur)[2],
                                  gain_read(player)),
            !.pc = "send"])
    /\ UNCHANGED <<player, ctl, now, ser>>

\* lines 308-309: data goes to the sink
RunSend(t) ==
    /\ th[t].pc = "send"
    /\ Step(t, [th[t] EXCEPT !.sent = Append(@, th[t].cur),
                             !.out  = Append(@, th[t].data),
                             !.tail = th[t].data,
                             !.burst = IF th[t].held THEN @ + 1 ELSE @,
                             !.pc   = "set_pos"])
    /\ ser' = send(ser, th[t].data)
    /\ UNCHANGED <<player, ctl, now>>

\* lines 312-313
RunSetPos(t) ==
    /\ th[t].pc = "set_pos"
    /\ player' = [player EXCEPT !.pos = MsgTime(th[t].messages, th[t].cur)]
    /\ Step(t, [th[t] EXCEPT !.pc = "on_position"])
    /\ UNCHANGED <<ctl, now, ser>>

\* lines 314-315: on_position(msg_time, self._duration)
RunOnPosition(t) ==
    /\ th[t].pc = "on_position"
    /\ Step(t, [th[t] EXCEPT
            !.posLog = Append(@, <<MsgTime(th[t].messages, th[t].cur),
                                   player.duration>>),
            !.pc = "for"])
    /\ UNCHANGED <<player, ctl, now, ser>>

\* lines 318-321: the exit path under the lock
\* variant: a loop that saw the stop signal does not count as playing
was_playing_unless_signalled(p) == p.state = PLAYING /\ ~p.stop_flag

was_playing(p) == p.state = PLAYING

finish(p) == [p EXCEPT !.state = STOPPED, !.pos = 0]

RunFin(t) ==
    /\ th[t].pc = "fin"
    /\ player' = finish(player)
    /\ Step(t, [th[t] EXCEPT !.was_playing = was_playing(player),
                             !.exitState = player.state,
                             !.pc = "fin_off"])
    /\ UNCHANGED <<ctl, now, ser>>

\* line 322: all_sound_off
RunFinOff(t) ==
    /\ th[t].pc = "fin_off"
    /\ Step(t, [Silenced(th[t]) EXCEPT !.pc = "on_finished"])
    /\ ser' = all_sound_off(ser)
    /\ UNCHANGED <<player, ctl, now>>

\* a thread that has ended: its frame is dropped, what it did is kept
Ended(r) ==
    [NoThread EXCEPT
        !.pc = "done", !.messages = r.messages,
        !.was_playing = r.was_playing,
        !.sent = r.sent, !.out = r.out, !.posLog = r.posLog,
        !.calls = r.calls, !.cut = r.cut,
        !.first = r.first, !.seekAt = r.seekAt,
        !.target = r.target, !.alone = r.alone,
        !.exitState = r.exitState, !.playPos = r.playPos,
        !.afterFail = r.afterFail, !.lost = r.lost,
        !.offs = r.offs, !.off = r.off, !.seeks = r.seeks, !.tail = r.tail,
        !.covered = r.covered, !.prev = r.prev, !.held = r.held,
        !.burst = r.burst]

\* lines 323-324: on_finished, and the thread ends
RunOnFinished(t) ==
    /\ th[t].pc = "on_finished"
    /\ Step(t, [Ended(th[t]) EXCEPT
                   !.fin = IF th[t].was_playing THEN 1 ELSE 0])
    /\ UNCHANGED <<player, ctl, now, ser>>

\* time passes (only while a loop can read the clock)
Tick ==
    /\ now < MaxNow
    /\ Live # {}
    /\ now' = now + 1
    /\ UNCHANGED <<player, th, ctl, ser>>

Run(t) ==
    \/ RunStart(t) \/ RunAnchor(t) \/ RunFor(t)
    \/ RunSeekTop(t) \/ RunSeekTop2(t) \/ RunSeekTopOff(t)
    \/ RunWait(t) \/ RunGate(t) \/ RunWaitStop(t) \/ RunWaitSeek(t)
    \/ RunWaitSeek2(t)
    \/ RunWaitOff(t) \/ RunAfterWait(t) \/ RunStopPos(t)
    \/ RunApply(t) \/ RunSend(t) \/ RunSetPos(t) \/ RunOnPosition(t)
    \/ RunFin(t) \/ RunFinOff(t) \/ RunOnFinished(t)

Next ==
    \/ Load \/ Play \/ Pause \/ StopEvents \/ StopLocked \/ StopOff
    \/ Seek \/ Rewind \/ Skip
    \/ \E t \in Threads : Run(t)
    \/ Tick

Spec == Init /\ [][Next]_vars

(***************************************************************************)
(* Faults of the environment: a source that cannot be parsed, a write      *)
(* that does not reach the port, an exception inside the pacing loop.      *)
(* SpecFault adds them to the calls and steps of Spec, for a client that   *)
(* issues MaxFaultCalls calls.                                             *)
(***************************************************************************)
\* variant: a failing load that has already reset the session
load_failed_resetting(p) ==
    [p EXCEPT !.messages = << >>, !.duration = 0, !.pos = 0]

\* load, lines 134-135: mido.MidiFile(path) or _flatten raises before the
\* lock is taken, so nothing has been assigned
load_failed(p) == p

LoadFail ==
    /\ CanCall
    /\ player' = load_failed(player)
    /\ th' = Noted("load_error")
    /\ ctl' = Called("load_error")
    /\ UNCHANGED <<now, ser>>

\* the ways a write does not reach the port (MIDISerial.send, lines 66-70):
\* the port is None or closed, or write() raises SerialException
Losses == {"dropped", "failed"}

\* variant: the SerialException leaves send() and ends the thread
send_escaping(r, o) ==
    [Ended(r) EXCEPT !.faulted = TRUE,
                     !.lost = @ \cup {<<Len(r.sent) + 1, o>>}]

\* send() returns normally although nothing was written; line 309 is done
send_swallowed(r, o) ==
    [r EXCEPT !.sent = Append(@, r.cur),
              !.out  = Append(@, r.data),
              !.lost = @ \cup {<<Len(r.sent) + 1, o>>},
              !.pc   = "set_pos"]

\* faults injected so far
LostBy(t) == Cardinality(th[t].lost) + (IF th[t].faulted THEN 1 ELSE 0)

RECURSIVE FaultsUpTo(_)
FaultsUpTo(t) == IF t = 0 THEN 0 ELSE LostBy(t) + FaultsUpTo(t - 1)

CanFault == FaultsUpTo(MaxThreads) < MaxFaults

RunSendLost(t) ==
    /\ th[t].pc = "send"
    /\ CanFault
    /\ \E o \in Losses : Step(t, send_swallowed(th[t], o))
    /\ UNCHANGED <<player, ctl, now, ser>>

\* an exception that _run does not catch (it has no try statement): raised
\* by _apply_volume or by send() other than SerialException (lines 306-309),
\* or by the on_position callback (line 315).  The thread ends there; the
\* exit path of lines 318-324 is not run.
RunFault(t) ==
    /\ th[t].pc \in {"send", "on_position"}
    /\ CanFault
    /\ Step(t, [Ended(th[t]) EXCEPT !.faulted = TRUE])
    /\ UNCHANGED <<player, ctl, now, ser>>

MaxFaultCalls == 2

FaultCall ==
    /\ ctl.n < MaxFaultCalls
    /\ \/ Load \/ LoadFail \/ Play \/ Pause \/ StopEvents
       \/ Seek \/ Rewind \/ Skip

NextFault ==
    \/ FaultCall
    \/ StopLocked \/ StopOff
    \/ \E t \in Threads : Run(t) \/ RunSendLost(t) \/ RunFault(t)
    \/ Tick

SpecFault == Init /\ [][NextFault]_vars

(***************************************************************************)
(* The sink byte by byte (MIDISerial, lines 43-74; the controller's        *)
(* MIDISerial, lines 77-108 of cynthia_controller.py, has the same three   *)
(* methods under the same lock).  The pacing loop passes events to send;   *)
(* the other thread calls all_sound_off (from pause or stop), connect and  *)
(* disconnect.  port.write puts the bytes of data out one after another;   *)
(* log holds the bytes the port has received since its last whole message. *)
(***************************************************************************)
MaxSinkEvents == 2
MaxSinkOps    == 2

SinkEvents == {<<192, 5>>, NoteOn(60)}

\* variant: the lock lets a thread in while another is inside
lock_any(s) == TRUE

\* threading.Lock: free when no thread is inside "with self._lock"
lock_free(s) == \A w \in Writers : ~s.job[w].in

Job(w)  == ser.job[w]
Data(w) == ser.job[w].queue[1]

\* line 309: self._ser.send(data)
SinkEvent ==
    /\ Job("loop").op = "idle"
    /\ ser.evs < MaxSinkEvents
    /\ \E data \in SinkEvents :
          ser' = [ser EXCEPT !.job["loop"] = [NoJob EXCEPT !.op = "send",
                                                          !.queue = <<data>>],
                             !.evs = @ + 1]
    /\ UNCHANGED <<player, th, ctl, now>>

\* lines 163 and 171: self._ser.all_sound_off()
SinkSoundOff ==
    /\ Job("ui").op = "idle"
    /\ ser.ops < MaxSinkOps
    /\ ser' = [ser EXCEPT !.job["ui"] = [NoJob EXCEPT
                                            !.op = "send",
                                            !.queue = sound_off_from(0)],
                          !.ops = @ + 1]
    /\ UNCHANGED <<player, th, ctl, now>>

\* lines 48 and 54: connect(port_name) or disconnect() is called
SinkConnect ==
    /\ Job("ui").op = "idle"
    /\ ser.ops < MaxSinkOps
    /\ ser' = [ser EXCEPT !.job["ui"] = [NoJob EXCEPT !.op = "connect"],
                          !.ops = @ + 1]
    /\ UNCHANGED <<player, th, ctl, now>>

SinkDisconnect ==
    /\ Job("ui").op = "idle"
    /\ ser.ops < MaxSinkOps
    /\ ser' = [ser EXCEPT !.job["ui"] = [NoJob EXCEPT !.op = "disconnect"],
                          !.ops = @ + 1]
    /\ UNCHANGED <<player, th, ctl, now>>

\* lines 49, 55 and 65: with self._lock
SinkAcquire(w) ==
    /\ Job(w).op # "idle"
    /\ ~Job(w).in
    /\ lock_free(ser)
    /\ ser' = [ser EXCEPT !.job[w].in = TRUE]
    /\ UNCHANGED <<player, th, ctl, now>>

\* lines 66-68: the port is open and write puts out the next byte of data
SinkWrite(w) ==
    /\ Job(w).op = "send" /\ Job(w).in
    /\ ser.open
    /\ Job(w).k < Len(Data(w))
    /\ ser' = [ser EXCEPT !.log = Append(@, Data(w)[Job(w).k + 1]),
                          !.job[w].k = @ + 1]
    /\ UNCHANGED <<player, th, ctl, now>>

\* lines 66-70: write has returned, or there was no open port (or the port
\* was closed under the write, which raises and is caught); the lock is
\* released, and all_sound_off goes on to its next message
SinkRelease(w) ==
    /\ Job(w).op = "send" /\ Job(w).in
    /\ ~ser.open \/ Job(w).k = Len(Data(w))
    /\ ser' = [ser EXCEPT
                 !.last = IF Job(w).k > 0 THEN ser.log ELSE @,
                 !.log  = IF Job(w).k > 0 THEN << >> ELSE @,
                 !.job[w] = IF Len(Job(w).queue) = 1 THEN NoJob
                            ELSE [NoJob EXCEPT !.op = "send",
                                               !.queue = Tail(Job(w).queue)]]
    /\ UNCHANGED <<player, th, ctl, now>>

\* lines 50-51 and 56-57: the open port, if any, is closed
SinkClose(w) ==
    /\ Job(w).op \in {"connect", "disconnect"} /\ Job(w).in
    /\ Job(w).k = 0
    /\ ser' = [ser EXCEPT !.open = FALSE, !.job[w].k = 1]
    /\ UNCHANGED <<player, th, ctl, now>>

\* lines 52 and 58: the new port, or None, is stored; the lock is released
SinkReopen(w) ==
    /\ Job(w).op \in {"connect", "disconnect"} /\ Job(w).in
    /\ Job(w).k = 1
    /\ ser' = [ser EXCEPT !.open = (Job(w).op = "connect"),
                          !.job[w] = NoJob]
    /\ UNCHANGED <<player, th, ctl, now>>

InitSink ==
    /\ player = [state |-> STOPPED, stop_flag |-> FALSE, pause_evt |-> TRUE,
                 thread |-> 0, messages |-> << >>, duration |-> 0,
                 pos |-> 0, seek_to |-> None, volume |-> <<GainDen, GainDen>>]
    /\ th  = [t \in Threads |-> NoThread]
    /\ ctl = Ctl0
    /\ now = 0
    /\ \E o \in BOOLEAN : ser = [Ser0 EXCEPT !.open = o]

NextSink ==
    \/ SinkEvent \/ SinkSoundOff \/ SinkConnect \/ SinkDisconnect
    \/ \E w \in Writers :
          \/ SinkAcquire(w) \/ SinkWrite(w) \/ SinkRelease(w)
          \/ SinkClose(w) \/ SinkReopen(w)

SpecSink == InitSink /\ [][NextSink]_vars

(***************************************************************************)
(* The volume transform on its own.  SpecVolume draws a message, lets      *)
(* set_volume (lines 180-182) be called with gains inside and outside      *)
(* [0, 1], and applies _apply_volume to the message under the gain set.    *)
(***************************************************************************)
VolArgs == {<<k, GainDen>> : k \in -2 .. GainDen + 2}

VolumeInputs ==
    {<<176 + ch, 7, v>> : ch \in {0, 15}, v \in 0 .. 127}
      \cup {NoteOn(60), <<176, 10, 100>>, <<192, 5>>}

\* max(0.0, min(1.0, v)) for the fraction v
set_volume(p, v) ==
    [p EXCEPT !.volume = IF v[1] < 0 THEN <<0, v[2]>>
                         ELSE IF v[1] > v[2] THEN <<v[2], v[2]>>
                         ELSE v]

InitVolume ==
    /\ player = [state |-> STOPPED, stop_flag |-> FALSE, pause_evt |-> TRUE,
                 thread |-> 0, messages |-> << >>, duration |-> 0,
                 pos |-> 0, seek_to |-> None, volume |-> <<GainDen, GainDen>>]
    /\ th  = [t \in Threads |-> NoThread]
    /\ \E raw \in VolumeInputs : ctl = [Ctl0 EXCEPT !.raw = raw]
    /\ now = 0
    /\ ser = Ser0

SetVolumeCall(args) ==
    /\ Idle
    /\ \E v \in args : player' = set_volume(player, v)
    /\ th' = Noted("set_volume")
    /\ ctl' = Called("set_volume")
    /\ UNCHANGED <<now, ser>>

SetVolume == ctl.n < MaxCalls /\ SetVolumeCall(VolArgs)

\* data = self._apply_volume(raw), with the gain it read
ApplyVolume ==
    /\ Idle
    /\ ctl.raw # << >>
    /\ ctl' = [ctl EXCEPT !.data = apply_volume(ctl.raw, gain_read(player)),
                          !.gain = player.volume]
    /\ UNCHANGED <<player, th, now, ser>>

NextVolume == SetVolume \/ ApplyVolume

SpecVolume == InitVolume /\ [][NextVolume]_vars

(***************************************************************************)
(* The gains the volume slider sets.  App._on_vol_slide (lines 942-945)    *)
(* takes the slider position v = int(float(val)) in 0 .. 127 and calls     *)
(* set_volume(v / 127).  SpecSlider draws a channel-volume message, moves  *)
(* the slider once (or leaves the gain at 1.0) and applies the transform.  *)
(***************************************************************************)
SliderArgs == {<<k, SliderMax>> : k \in 0 .. SliderMax}

SliderInputs == {<<176 + ch, 7, v>> : ch \in {0, 15}, v \in 0 .. 127}

InitSlider ==
    /\ player = [state |-> STOPPED, stop_flag |-> FALSE, pause_evt |-> TRUE,
                 thread |-> 0, messages |-> << >>, duration |-> 0,
                 pos |-> 0, seek_to |-> None, volume |-> <<GainDen, GainDen>>]
    /\ th  = [t \in Threads |-> NoThread]
    /\ \E raw \in SliderInputs : ctl = [Ctl0 EXCEPT !.raw = raw]
    /\ now = 0
    /\ ser = Ser0

VolSlide == ctl.n = 0 /\ ctl.data = << >> /\ SetVolumeCall(SliderArgs)

NextSlider == VolSlide \/ ApplyVolume

SpecSlider == InitSlider /\ [][NextSlider]_vars

(***************************************************************************)
(* _flatten (lines 191-242) on its own.  A file is its ticks_per_beat and  *)
(* its tracks; a message of a track has its delta time in ticks and is a   *)
(* set_tempo meta message ("tempo"), another meta message ("meta"), a      *)
(* message without a bytes method ("opaque"), or a message with the bytes  *)
(* raw ("note"), which may be empty.                                       *)
(* elapsed_us is kept exactly, as the sum of tick_delta * tempo over the   *)
(* gaps: it is that sum divided by ticks_per_beat.  The time of an output  *)
(* pair is kept as this sum; in seconds it is the sum divided by           *)
(* ticks_per_beat * MicrosPerSecond.  (The code accumulates doubles: each  *)
(* term it adds is >= 0 and may be off the exact value by rounding.)       *)
(***************************************************************************)
DefaultTempo    == 500000
MicrosPerSecond == 1000000

\* lines 206-210: the messages of one track with their absolute ticks
RECURSIVE AbsTicks(_, _, _)
AbsTicks(track, k, abs_tick) ==
    IF k > Len(track) THEN << >>
    ELSE <<[tick |-> abs_tick + track[k].time, msg |-> track[k]]>>
            \o AbsTicks(track, k + 1, abs_tick + track[k].time)

\* the entries of track number n, each with its place <<n, j>> in the
\* file (the identity of the message object; history only)
Placed(entries, n) ==
    [j \in 1 .. Len(entries) |->
        [tick |-> entries[j].tick, msg |-> entries[j].msg, at |-> <<n, j>>]]

\* lines 205-210: merged, track after track
RECURSIVE Merged(_, _)
Merged(tracks, k) ==
    IF k > Len(tracks) THEN << >>
    ELSE Placed(AbsTicks(tracks[k], 1, 0), k) \o Merged(tracks, k + 1)

\* the orders a sort by tick may leave merged in
\* variant: any order that is sorted by tick
AnySorts(merged) ==
    {[k \in 1 .. Len(merged) |-> merged[p[k]]] :
        p \in {q \in Permutations(1 .. Len(merged)) :
                 \A a, b \in 1 .. Len(merged) :
                    a < b => merged[q[a]].tick <= merged[q[b]].tick}}

\* line 213: list.sort is stable, entries of equal tick keep their order
StableSorts(merged) ==
    {[k \in 1 .. Len(merged) |-> merged[p[k]]] :
        p \in {q \in Permutations(1 .. Len(merged)) :
                 \A a, b \in 1 .. Len(merged) :
                    a < b => \/ merged[q[a]].tick < merged[q[b]].tick
                             \/ /\ merged[q[a]].tick = merged[q[b]].tick
                                /\ q[a] < q[b]}}

\* the tempo that converts the gap in front of an entry
\* variant: a set_tempo entry already applies to the gap in front of it
gap_tempo_retroactive(tempo, msg) ==
    IF msg.kind = "tempo" THEN msg.tempo ELSE tempo

\* line 224: the running tempo
gap_tempo(tempo, msg) == tempo

\* variant: a set_tempo message leaves the running tempo as it is
tempo_kept(tempo, msg) == tempo

\* lines 227-230: the running tempo after an entry
tempo_after(tempo, msg) == IF msg.kind = "tempo" THEN msg.tempo ELSE tempo

\* variant: a message with empty bytes is appended too
emitted_if_not_meta(msg) == msg.kind \notin {"tempo", "meta", "opaque"}

\* lines 227-238: the entry reaches result.append
emitted(msg) ==
    msg.kind \notin {"tempo", "meta", "opaque"} /\ msg.raw # << >>

\* lines 221-240: the walk over the sorted entries from entry k on; an
\* appended pair is followed by the place of its message (history only)
RECURSIVE Walk(_, _, _, _, _)
Walk(sorted, k, tempo, last_tick, elapsed) ==
    IF k > Len(sorted) THEN << >>
    ELSE LET e    == sorted[k]
             el   == elapsed
                       + (e.tick - last_tick) * gap_tempo(tempo, e.msg)
             rest == Walk(sorted, k + 1, tempo_after(tempo, e.msg), e.tick, el)
         IN  IF emitted(e.msg) THEN <<<<el, e.msg.raw, e.at>>>> \o rest
             ELSE rest

\* the (time, bytes) pairs of a walk, and the places they came from
Pairs(w)  == [k \in 1 .. Len(w) |-> <<w[k][1], w[k][2]>>]
Places(w) == [k \in 1 .. Len(w) |-> w[k][3]]

\* the walks _flatten(mid) may take
Walks(mid) ==
    {Walk(sorted, 1, DefaultTempo, 0, 0) :
        sorted \in StableSorts(Merged(mid.tracks, 1))}

\* what _flatten(mid) may return
Flattenings(mid) == {Pairs(w) : w \in Walks(mid)}

\* the files tried: up to MaxTracks tracks of up to MaxTrackLen messages,
\* and the file of the tempo example
MaxTracks   == 2
MaxTrackLen == 2

Note(d, raw)  == [time |-> d, kind |-> "note", tempo |-> 0, raw |-> raw]
Tempo(d, tp)  == [time |-> d, kind |-> "tempo", tempo |-> tp, raw |-> << >>]
Meta(d, kind) == [time |-> d, kind |-> kind, tempo |-> 0, raw |-> << >>]

FileMessages ==
    {Note(d, raw) : d \in 0 .. 1, raw \in {NoteOn(60), NoteOn(62)}}
      \cup {Tempo(d, tp) : d \in 0 .. 1, tp \in {250000, 1000000}}
      \cup {Meta(0, "meta"), Meta(1, "opaque"), Note(0, << >>)}

SeqsUpTo(S, n) == UNION {[1 .. k -> S] : k \in 0 .. n}

TempoExample ==
    [tpb |-> 480,
     tracks |-> <<<<Tempo(480, 1000000), Note(480, NoteOn(60))>>>>]

FlattenInputs ==
    {[tpb |-> tpb, tracks |-> tracks] :
        tpb \in {1, 2},
        tracks \in SeqsUpTo(SeqsUpTo(FileMessages, MaxTrackLen), MaxTracks)}
      \cup {TempoExample}

InitFlatten ==
    /\ player = [state |-> STOPPED, stop_flag |-> FALSE, pause_evt |-> TRUE,
                 thread |-> 0, messages |-> << >>, duration |-> 0,
                 pos |-> 0, seek_to |-> None, volume |-> <<GainDen, GainDen>>]
    /\ th  = [t \in Threads |-> NoThread]
    /\ \E mid \in FlattenInputs : ctl = [Ctl0 EXCEPT !.mid = mid]
    /\ now = 0
    /\ ser = Ser0

\* messages = self._flatten(mid), called once more on the same file
Flatten ==
    /\ Idle
    /\ ctl.flatN < 2
    /\ \E w \in Walks(ctl.mid) :
          ctl' = [ctl EXCEPT !.flat = Pairs(w), !.flatPrev = ctl.flat,
                             !.flatN = @ + 1, !.flatAt = Places(w)]
    /\ UNCHANGED <<player, th, now, ser>>

NextFlatten == Flatten

SpecFlatten == InitFlatten /\ [][NextFlatten]_vars

(***************************************************************************)
(* A client that advances its queue with skip(): it plays the loaded       *)
(* track, calls skip() (or seeks in the track instead), loads the next     *)
(* track and calls play(), without waiting for the loop or its callbacks.  *)
(* SpecAdvance runs this client against the pacing loops.                  *)
(***************************************************************************)
AdvPlay == ctl.n \in {0, 3} /\ PlayCall
AdvSkip == ctl.n = 1 /\ SkipCall
AdvSeek == ctl.n = 1 /\ SeekCall
AdvLoad == ctl.n = 2 /\ LoadCall

NextAdvance ==
    \/ AdvPlay \/ AdvSkip \/ AdvSeek \/ AdvLoad
    \/ \E t \in Threads : Run(t)
    \/ Tick

SpecAdvance == Init /\ [][NextAdvance]_vars

(***************************************************************************)
(* One playback that is started once and then paused, sought, skipped or   *)
(* stopped: play() is the first call and is not called again.  A thread    *)
(* that can take a step of _run takes it in the end, and stop(), once      *)
(* begun, runs to its return; a thread inside Event.wait() (line 276) with *)
(* the gate closed can take no step.                                       *)
(***************************************************************************)
FirstPlay == ctl.n = 0 /\ PlayCall
ThenPause == ctl.n > 0 /\ Pause
ThenStop  == ctl.n > 0 /\ StopEvents
ThenSeek  == ctl.n > 0 /\ Seek
ThenSkip  == ctl.n > 0 /\ Skip

NextOnce ==
    \/ FirstPlay \/ ThenPause \/ ThenStop \/ StopLocked \/ StopOff
    \/ ThenSeek \/ ThenSkip
    \/ \E t \in Threads : Run(t)
    \/ Tick

SpecOnce ==
    /\ Init /\ [][NextOnce]_vars
    /\ \A t \in Threads : WF_vars(Run(t))
    /\ WF_vars(StopLocked \/ StopOff)

(***************************************************************************)
(* Playback of a track that holds channel-volume messages, while the gain  *)
(* is changed: play() first, then set_volume, seek and skip in any order.  *)
(***************************************************************************)
Volume(ch, v) == <<176 + ch, 7, v>>

TrackVolume ==
    << <<0, Volume(0, 100)>>, <<1, NoteOn(60)>>, <<2, Volume(15, 127)>> >>
TrackMixed  ==
    << <<0, <<192, 5>>>>, <<1, <<176, 10, 100>>>>, <<1, Volume(0, 64)>> >>

GainArgs == {<<0, GainDen>>, <<GainDen \div 2, GainDen>>,
             <<GainDen + GainDen \div 2, GainDen>>}

InitGain ==
    /\ \E m \in {TrackVolume, TrackMixed} :
          player = [state |-> STOPPED, stop_flag |-> FALSE, pause_evt |-> TRUE,
                    thread |-> 0, messages |-> m, duration |-> DurationOf(m),
                    pos |-> 0, seek_to |-> None,
                    volume |-> <<GainDen, GainDen>>]
    /\ th  = [t \in Threads |-> NoThread]
    /\ ctl = Ctl0
    /\ now = 0
    /\ ser = Ser0

GainSet == ctl.n > 0 /\ ctl.n < MaxCalls /\ SetVolumeCall(GainArgs)

NextGain ==
    \/ FirstPlay \/ GainSet \/ ThenSeek \/ ThenSkip
    \/ \E t \in Threads : Run(t)
    \/ Tick

SpecGain == InitGain /\ [][NextGain]_vars

(***************************************************************************)
(* One playback that is paused and resumed: play() starts the loop at      *)
(* position 0 and instant 0, and is called again only in Paused (lines     *)
(* 148-151).  The clock of SpecPause also counts the instants that pass    *)
(* while the state is not Paused; the program keeps no such count, the     *)
(* loop compares perf_counter() with the anchor t0 of line 250.            *)
(***************************************************************************)
Resume == ctl.n > 0 /\ player.state = PAUSED /\ Play

TickUnpaused ==
    /\ now < MaxNow
    /\ Live # {}
    /\ now' = now + 1
    /\ ctl' = [ctl EXCEPT !.run = IF player.state = PAUSED THEN @ ELSE @ + 1]
    /\ UNCHANGED <<player, th, ser>>

NextPause ==
    \/ FirstPlay \/ ThenPause \/ Resume \/ ThenSeek \/ ThenSkip
    \/ \E t \in Threads : Run(t)
    \/ TickUnpaused

SpecPause == Init /\ [][NextPause]_vars

(***************************************************************************)
(* The two locks.  MIDIPlayer._lock (line 96)  is taken by every with      *)
(* self._lock block of the player, MIDISerial._lock (line 46) by connect,  *)
(* disconnect and send.  In SpecLock a thread takes a lock in a step of    *)
(* its own, when no thread is inside a block of that lock, and the step    *)
(* that runs the block leaves it.  all_sound_off takes the sink lock once  *)
(* per message (lines 72-74, 65); its sixteen sections are one here.       *)
(***************************************************************************)
\* variant: the wait on the gate is inside a block of the transport lock
under_lock_at_gate(pc) ==
    pc \in {"start", "seek_top", "gate", "wait_seek", "stop_pos", "set_pos",
            "fin"}

\* variant: the write of the event is inside the block that sets _pos
under_lock_at_send(pc) ==
    pc \in {"start", "seek_top", "wait_seek", "stop_pos", "send", "set_pos",
            "fin"}

\* the steps of _run inside with self._lock: lines 245-247, 258-260,
\* 281-283, 301-302, 312-313, 318-321
under_lock(pc) ==
    pc \in {"start", "seek_top", "wait_seek", "stop_pos", "set_pos", "fin"}

\* the steps of _run that call the sink: lines 266, 289, 309, 322
writes_sink(pc) == pc \in {"seek_top_off", "wait_off", "send", "fin_off"}

TransportFree == ~ctl.lk /\ \A t \in Threads : ~th[t].lk
SinkFree      == ~ctl.sk /\ \A t \in Threads : ~th[t].sk

\* with self._lock: in _run
LoopAcquire(t) ==
    /\ Alive(t) /\ under_lock(th[t].pc)
    /\ TransportFree
    /\ th' = [th EXCEPT ![t].lk = TRUE]
    /\ UNCHANGED <<player, ctl, now, ser>>

\* with self._lock: in MIDISerial.send, called from _run
LoopSinkAcquire(t) ==
    /\ Alive(t) /\ writes_sink(th[t].pc)
    /\ th[t].lk = under_lock(th[t].pc)
    /\ SinkFree
    /\ th' = [th EXCEPT ![t].sk = TRUE]
    /\ UNCHANGED <<player, ctl, now, ser>>

\* a step of _run, taken inside the blocks the statement is in
LockRun(t) ==
    /\ th[t].lk = under_lock(th[t].pc)
    /\ th[t].sk = writes_sink(th[t].pc)
    /\ Run(t)

\* with self._lock: in load, play, pause, seek, and in stop (line 168)
CtlAcquire ==
    /\ \/ CanCall
       \/ ctl.pc = "stop_locked"
    /\ ~ctl.lk
    /\ TransportFree
    /\ ctl' = [ctl EXCEPT !.lk = TRUE]
    /\ UNCHANGED <<player, th, now, ser>>

\* with self._lock: in MIDISerial.send, called from pause (line 163, inside
\* the block of line 159) and from stop (line 171, after its block)
CtlSinkAcquire ==
    /\ \/ Idle /\ ctl.lk /\ player.state = PLAYING
       \/ ctl.pc = "stop_off"
    /\ ~ctl.sk
    /\ SinkFree
    /\ ctl' = [ctl EXCEPT !.sk = TRUE]
    /\ UNCHANGED <<player, th, now, ser>>

\* the client's first call is play()
LockPlay  == ctl.lk /\ ~ctl.sk /\ Play
LockLoad  == ctl.n > 0 /\ ctl.lk /\ ~ctl.sk /\ Load
LockSeek  == ctl.n > 0 /\ ctl.lk /\ ~ctl.sk /\ (Seek \/ Rewind)
LockPause ==
    ctl.n > 0 /\ ctl.lk /\ ctl.sk = (player.state = PLAYING) /\ Pause
LockStop  ==
    \/ ctl.n > 0 /\ ~ctl.lk /\ StopEvents
    \/ ctl.lk /\ StopLocked
    \/ ctl.sk /\ StopOff
\* skip and set_volume take no lock (lines 180-187)
LockSkip  == ctl.n > 0 /\ ~ctl.lk /\ Skip
LockSetVolume ==
    /\ ctl.n > 0 /\ ~ctl.lk /\ ctl.n < MaxCalls
    /\ SetVolumeCall({<<GainDen \div 2, GainDen>>})

\* the clock of SpecLock stops at MaxLockNow
MaxLockNow == 1

LockTick == now < MaxLockNow /\ Tick

NextLock ==
    \/ CtlAcquire \/ CtlSinkAcquire
    \/ LockLoad \/ LockPlay \/ LockSeek \/ LockPause \/ LockStop
    \/ LockSkip \/ LockSetVolume
    \/ \E t \in Threads : LoopAcquire(t) \/ LoopSinkAcquire(t) \/ LockRun(t)
    \/ LockTick

SpecLock == Init /\ [][NextLock]_vars

(***************************************************************************)
(* The queue list (lines 429-582): files are added to the end of the list, *)
(* and the remove button of any row on screen is clicked.                  *)
(***************************************************************************)
MaxQueue == 4

Paths == {"a.mid", "b.mid", "c.mid", "d.mid"}

\* the window as built: nothing loaded, nothing queued
InitQueue ==
    /\ player = [state |-> STOPPED, stop_flag |-> FALSE, pause_evt |-> TRUE,
                 thread |-> 0, messages |-> << >>, duration |-> 0,
                 pos |-> 0, seek_to |-> None, volume |-> <<GainDen, GainDen>>]
    /\ th  = [t \in Threads |-> NoThread]
    /\ ctl = Ctl0
    /\ now = 0
    /\ ser = Ser0

\* list.pop(idx)
list_pop(s, idx) ==
    [k \in 1 .. Len(s) - 1 |-> IF k <= idx THEN s[k] ELSE s[k + 1]]

\* add (lines 465-468) and _make_row (lines 470-512)
QueueAdd ==
    /\ ctl.queue.made < MaxQueue
    /\ \E path \in Paths :
          /\ \A k \in 1 .. Len(ctl.queue.items) : ctl.queue.items[k] # path
          /\ LET q   == ctl.queue
                 idx == Len(q.items)
                 row == [id |-> q.made + 1, path |-> path, i |-> idx]
             IN  ctl' = [ctl EXCEPT !.queue =
                           [q EXCEPT !.items = Append(@, path),
                                     !.rows  = Append(@, row.id),
                                     !.shown = @ \cup {row},
                                     !.made  = @ + 1,
                                     !.hit   = NoRow]]
    /\ UNCHANGED <<player, th, now, ser>>

\* _remove(i, ws) (lines 524-532), from a click on the remove button of a
\* row w on screen
QueueRemove ==
    /\ \E w \in ctl.queue.shown :
          LET q   == ctl.queue
              idx == w.i       \* the default argument i=idx of line 503
          IN  ctl' = [ctl EXCEPT !.queue =
                        [q EXCEPT
                           !.items = IF idx < Len(q.items)
                                     THEN list_pop(@, idx) ELSE @,
                           !.shown = @ \ {w},
                           !.rows  = IF idx < Len(q.rows)
                                     THEN list_pop(@, idx) ELSE @,
                           !.hit = w, !.was = q.items, !.wasRows = q.rows]]
    /\ UNCHANGED <<player, th, now, ser>>

NextQueue == QueueAdd \/ QueueRemove

SpecQueue == InitQueue /\ [][NextQueue]_vars

(***************************************************************************)
(* Properties.                                                             *)
(***************************************************************************)
Done(t) == th[t].pc = "done"

\* the indices first, first+1, ... , as many as len
RunOf(first, len) == [k \in 1 .. len |-> first + k - 1]

\* no pause, stop, skip, seek or load was called while loop t ran, and it
\* consumed no seek target
Undisturbed(t) ==
    /\ th[t].calls \cap {"pause", "stop", "skip", "seek", "load"} = {}
    /\ th[t].seekAt = None

\* C1: at most one pacing loop (a thread running _run) is alive at any
\* instant, whatever control calls are interleaved.
C1_AtMostOneLoop == Cardinality(Live) <= 1

\* C2: when stop() is called before the pacing loop has sent the last event
\* of its sequence, that loop never invokes on_finished.
C2_StopNeverFinishes ==
    \A t \in Threads : "stop" \in th[t].cut => th[t].fin = 0

C4_PlaysToCompletion ==
    \A t \in Threads :
        Done(t) /\ Undisturbed(t) =>
            /\ th[t].sent = RunOf(th[t].first, Len(th[t].messages) - th[t].first)
            /\ th[t].fin = 1

\* C5: for a playback without control calls, on_position is invoked once per
\* event, in order, with (the event's time, the duration); on_finished comes
\* after the last on_position, and when it is invoked state is Stopped and
\* position is 0.  (That line 313 sets the position before line 315 calls
\* back is the order of RunSetPos and RunOnPosition.)
C5_CallbackOrder ==
    \A t \in Threads :
        th[t].calls = {} /\ th[t].seekAt = None =>
            /\ th[t].posLog =
                  [k \in 1 .. Len(th[t].posLog) |->
                      <<MsgTime(th[t].messages, th[t].first + k - 1),
                        DurationOf(th[t].messages)>>]
            /\ th[t].pc = "on_finished" /\ th[t].was_playing =>
                  /\ Len(th[t].posLog) = Len(th[t].messages) - th[t].first
                  /\ player.state = STOPPED
                  /\ player.pos = 0

\* C6: the events a loop sends after it consumed a seek to target are the
\* events from the first one whose time is >= target on, in sequence order
\* (so none of them has a time < target).
C6_SeekResumesAtTarget ==
    \A t \in Threads :
        th[t].seekAt # None =>
            SubSeq(th[t].sent, th[t].seekAt + 1, Len(th[t].sent))
              = RunOf(find_index(th[t].messages, th[t].target),
                      Len(th[t].sent) - th[t].seekAt)

C8_OrderedWithoutSeek ==
    [][ ~ctl'.seeked =>
          /\ \A t \in Threads : th'[t].sent = RunOf(th'[t].first, Len(th'[t].sent))
          /\ \A a, b \in Threads :
                a < b /\ th[b].sent # << >> => th'[a].sent = th[a].sent ]_vars

\* C9: stop() twice in a row leaves the same player as stop() once, and
\* pause() on a Paused player leaves it as it is.
C9_Idempotent ==
    /\ stop(stop(player)) = stop(player)
    /\ player.state = PAUSED => pause(player) = player

\* pause() has just returned from a call made in state Paused, on a player
\* that a stop() would change
C9_Witness ==
    /\ ctl.pc = "idle" /\ ctl.last = "pause" /\ ctl.noop
    /\ player.state = PAUSED
    /\ stop(player) # player

\* C10: once stop() has returned, and until the next control call, state is
\* Stopped and position is 0, and stop() has emitted a silence command.
C10_StoppedStaysStopped ==
    ctl.pc = "idle" /\ ctl.last = "stop" =>
        player.state = STOPPED /\ player.pos = 0 /\ ctl.silenced

\* a step of the control thread that issues the call name
CallStep(name) == ctl'.last = name /\ ctl'.n = ctl.n + 1

\* the loops a step spawns
NewLoops == {t \in Threads : th[t].pc = "none" /\ th'[t].pc # "none"}

\* what play() does to the player and to the set of loops, by state
PlayEffects ==
    [][ CallStep("play") =>
          /\ player.state = STOPPED =>
                /\ player' = [player EXCEPT !.state = PLAYING,
                                 !.stop_flag = FALSE, !.pause_evt = TRUE,
                                 !.thread = player'.thread]
                /\ NewLoops = {player'.thread}
          /\ player.state = PAUSED =>
                /\ player' = [player EXCEPT !.state = PLAYING,
                                            !.pause_evt = TRUE]
                /\ NewLoops = {}
          /\ player.state = PLAYING => player' = player /\ NewLoops = {} ]_vars

\* the start index of a loop is the first event at or after the position
\* that was current when play() spawned it
StartsAtPlayPosition ==
    \A t \in Threads :
        th[t].pc \notin {"none", "start", "anchor"} =>
            th[t].first = find_index(th[t].messages, th[t].playPos)

\* C11: play() in Stopped sets state Playing, clears the stop flag, opens
\* the pause gate and spawns exactly one pacing loop, which starts from the
\* position current at that play(); play() in Paused sets state Playing and
\* opens the gate without spawning; play() in Playing changes nothing and
\* spawns nothing.
C11_Play == PlayEffects /\ []StartsAtPlayPosition

\* C12: pause() in Playing sets state Paused, closes the pause gate and
\* emits one silence command before it returns; pause() in Stopped or
\* Paused changes nothing and emits nothing.
C12_PauseEffects ==
    [][ CallStep("pause") =>
          /\ ctl'.pc = "idle"
          /\ IF player.state = PLAYING
             THEN /\ player' = [player EXCEPT !.state = PAUSED,
                                              !.pause_evt = FALSE]
                  /\ ctl'.silenced
             ELSE player' = player /\ ~ctl'.silenced ]_vars

\* pause() has returned from a call made in Playing, and a loop waits at
\* the closed gate
C12_Witness ==
    /\ ctl.pc = "idle" /\ ctl.last = "pause" /\ ctl.silenced
    /\ player.state = PAUSED /\ ~player.pause_evt
    /\ \E t \in Threads : th[t].pc = "gate"

\* C13: once load() was called while the loop was active (state Playing or
\* Paused) and had events left to send, that loop sends no further event of
\* its (previously loaded) sequence.
C13_LoadStopsPlayback ==
    [][ \A t \in Threads :
            "load" \in th[t].cut => th'[t].sent = th[t].sent ]_vars

\* C14: a successful load() replaces the sequence, sets duration to the
\* last event's time (0 for an empty sequence) and position to 0, returns
\* that duration, and changes nothing else: the transport state stays.
C14_LoadEffects ==
    [][ CallStep("load") =>
          \E m \in Tracks :
             LET d == IF m = << >> THEN 0 ELSE m[Len(m)][1]
             IN  /\ player' = [player EXCEPT !.messages = m, !.duration = d,
                                             !.pos = 0]
                 /\ player'.state = player.state
                 /\ ctl'.ret = d ]_vars

\* load() of the 3-event track has returned 2 while a loop was paused after
\* its first events
C14_Witness ==
    /\ ctl.pc = "idle" /\ ctl.last = "load" /\ ctl.ret = 2
    /\ player.state = PAUSED /\ player.messages = TrackABC
    /\ \E t \in Threads : Alive(t) /\ Len(th[t].sent) >= 1

\* the target seek(s) must record: s clamped to [0, duration]
Clamped(s, duration) ==
    IF s < 0 THEN 0 ELSE IF s > duration THEN duration ELSE s

\* C16: seek(t) succeeds for every t and records the pending target
\* max(0, min(t, duration)), which lies in [0, duration], and nothing else;
\* rewind() records the target 0.
C16_SeekClamps ==
    /\ [](/\ \A s \in SeekArgs :
               /\ seek(player, s) =
                     [player EXCEPT !.seek_to = Clamped(s, player.duration)]
               /\ seek(player, s).seek_to \in 0 .. player.duration
          /\ rewind(player) = [player EXCEPT !.seek_to = 0])
    /\ [][ CallStep("seek") =>
             /\ player'.seek_to \in 0 .. player.duration
             /\ player' = [player EXCEPT !.seek_to = player'.seek_to] ]_vars

\* seek(3) has returned on the 3-event track (duration 2): the target is 2
C16_Witness ==
    /\ ctl.pc = "idle" /\ ctl.last = "seek"
    /\ player.duration = 2 /\ player.seek_to = 2

\* C15: a load() that fails leaves the player as it was (sequence,
\* duration, position, state, pending seek), and the track loaded before
\* can still be played: a loop that play() spawns right after the failure
\* paces the sequence the player holds, as long as no load() replaces it.
C15_FailedLoadKeepsSession ==
    /\ [][ CallStep("load_error") => player' = player /\ ctl'.pc = "idle" ]_vars
    /\ [](\A t \in Threads :
            /\ th[t].afterFail /\ "load" \notin th[t].calls
            /\ Alive(t) /\ th[t].pc # "start"
            => th[t].messages = player.messages)

\* after a failed load(), play() has played the 3-event track to its end
C15_Witness ==
    \E t \in Threads :
        /\ Done(t) /\ th[t].afterFail /\ ~th[t].faulted
        /\ th[t].messages = TrackABC /\ th[t].sent = RunOf(0, 3)
        /\ th[t].fin = 1

\* C18: when an exception ends a pacing loop, the transport still ends in
\* state Stopped: with no live loop left, state is not Playing or Paused.
C18_FaultEndsStopped ==
    (\E t \in Threads : th[t].faulted) /\ Live = {}
        => player.state = STOPPED

\* C19: a write that fails or is dropped is swallowed inside send(): the
\* loop goes on from line 309 with its timing anchor and its iteration
\* untouched, sets the position to that event's time and calls on_position
\* with it; and a playback without control calls still sends every event
\* from its start index on, in order, and reports each of them.
C19_LostWriteIsSwallowed ==
    /\ [][ \A t \in Threads :
             th'[t].lost # th[t].lost =>
                /\ th'[t].pc = "set_pos" /\ ~th'[t].faulted
                /\ th'[t].sent = Append(th[t].sent, th[t].cur)
                /\ th'[t].t0 = th[t].t0 /\ th'[t].it = th[t].it ]_vars
    /\ [][ \A t \in Threads :
             /\ th[t].pc = "set_pos" /\ th'[t].pc # "set_pos" =>
                   /\ th'[t].pc = "on_position"
                   /\ player'.pos = MsgTime(th[t].messages, th[t].cur)
             /\ th[t].pc = "on_position" /\ th'[t].pc = "for" =>
                   th'[t].posLog =
                      Append(th[t].posLog,
                             <<MsgTime(th[t].messages, th[t].cur),
                               player.duration>>) ]_vars
    /\ [](\A t \in Threads :
            th[t].calls = {} /\ th[t].seekAt = None /\ ~th[t].faulted =>
               /\ th[t].sent = RunOf(th[t].first, Len(th[t].sent))
               /\ Len(th[t].posLog) \in {Len(th[t].sent), Len(th[t].sent) - 1}
               /\ Done(t) =>
                     /\ Len(th[t].sent) = Len(th[t].messages) - th[t].first
                     /\ Len(th[t].posLog) = Len(th[t].sent))

\* the first write of a playback of the 3-event track was lost, and the
\* loop has sent and reported all three events
C19_Witness ==
    \E t \in Threads :
        /\ Done(t) /\ th[t].calls = {} /\ ~th[t].faulted
        /\ \E o \in Losses : <<1, o>> \in th[t].lost
        /\ th[t].sent = RunOf(0, 3) /\ Len(th[t].posLog) = 3

\* a loop is alive and has not yet run its exit path (lines 318-321)
BeforeExit(t) == Alive(t) /\ th[t].pc \notin {"fin_off", "on_finished"}

C20_VolumeInRange ==
    /\ player.volume[1] \in 0 .. player.volume[2]
    /\ ctl.data # << >> /\ IsVolumeCC(ctl.raw) /\ ctl.raw[3] \in 0 .. 127 =>
          /\ ctl.data[3] \in 0 .. 127
          /\ 2 * ctl.gain[1] = ctl.gain[2] /\ ctl.raw[3] = 127
                => ctl.data[3] \in {63, 64}

\* the transform was applied to a control change 7 of value 127 under the
\* gain 0.5, set by set_volume
C20_Witness ==
    /\ ctl.last = "set_volume" /\ 2 * ctl.gain[1] = ctl.gain[2]
    /\ ctl.raw = <<176, 7, 127>> /\ ctl.data = <<176, 7, 63>>

\* the times of a flattened sequence never decrease
NonDecreasing(flat) ==
    \A k \in 1 .. Len(flat) - 1 : flat[k][1] <= flat[k + 1][1]

\* C21: flattening the same file twice gives the same sequence, and the
\* times of the sequence never decrease, tempo changes included.
C21_FlattenDeterministic ==
    /\ ctl.flatN >= 1 => NonDecreasing(ctl.flat)
    /\ ctl.flatN = 2 => ctl.flat = ctl.flatPrev

\* a file of two tracks with a tempo change was flattened twice into three
\* events, the last later than the first
C21_Witness ==
    /\ ctl.flatN = 2 /\ Len(ctl.flat) = 3
    /\ Len(ctl.mid.tracks) = 2
    /\ \E k \in 1 .. 2 : \E j \in 1 .. Len(ctl.mid.tracks[k]) :
          ctl.mid.tracks[k][j].kind = "tempo"
    /\ ctl.flat[1][1] < ctl.flat[3][1]

\* C22 (as stated): in the tempo example (ticks_per_beat 480, set_tempo
\* 1000000 at tick 480, note-on at tick 960) the note-on gets the time 2.0 s.
C22_TempoExampleTwoSeconds ==
    ctl.mid = TempoExample /\ ctl.flatN >= 1 =>
        /\ Len(ctl.flat) = 1
        /\ ctl.flat[1][1] = 2 * ctl.mid.tpb * MicrosPerSecond

\* C22 (amended): in the tempo example the note-on gets the time
\* 0.5 + 1.0 = 1.5 s: 480 ticks at 500000 us per beat, then 480 ticks at
\* 1000000 us per beat.
C22_TempoExample ==
    ctl.mid = TempoExample /\ ctl.flatN >= 1 =>
        /\ Len(ctl.flat) = 1
        /\ ctl.flat[1][2] = NoteOn(60)
        /\ 2 * ctl.flat[1][1] = 3 * ctl.mid.tpb * MicrosPerSecond

C22_Witness ==
    /\ ctl.mid = TempoExample /\ ctl.flatN >= 1
    /\ ctl.flat = <<<<720000000, NoteOn(60)>>>>

\* the sixteen messages of a silence command: control change 120, value 0,
\* on the channels 0 to 15 in this order
SoundOffSweep == [k \in 1 .. 16 |-> <<175 + k, 120, 0>>]

\* the silence commands loop t has completed, against what calls for one:
\* every target it took and applied, and its exit
SilencesDue(t) ==
    th[t].seeks
      - (IF th[t].pc \in {"seek_top_off", "wait_off"} THEN 1 ELSE 0)
      + (IF th[t].pc \in {"on_finished", "done"} THEN 1 ELSE 0)

\* C24: a silence command writes exactly 16 messages, control change 120
\* with value 0 on the channels 0..15 in ascending order; one is emitted by
\* every pause() in Playing, every stop(), every seek target a loop takes
\* and every loop exit.
C24_SilenceCommand ==
    /\ [](/\ ctl.wrote \in {<< >>, SoundOffSweep}
          /\ ctl.last = "stop" /\ ctl.pc = "idle" => ctl.wrote = SoundOffSweep
          /\ \A t \in Threads :
                /\ th[t].offs > 0 => th[t].off = SoundOffSweep
                /\ th[t].offs = SilencesDue(t))
    /\ [][ CallStep("pause") /\ player.state = PLAYING =>
              ctl'.wrote = SoundOffSweep /\ ser'.last = <<191, 120, 0>> ]_vars

\* a loop took a seek target, sent events and ended, stop() has returned:
\* the loop emitted two silence commands and stop() one
C24_Witness ==
    /\ ctl.last = "stop" /\ ctl.pc = "idle" /\ ctl.wrote = SoundOffSweep
    /\ \E t \in Threads :
          /\ Done(t) /\ th[t].seeks = 1 /\ th[t].offs = 2
          /\ Len(th[t].sent) >= 1

IsSoundOff(data) == Len(data) = 3 /\ data[2] = 120 /\ data[3] = 0

\* C27: the last message a pacing loop sends before it exits belongs to a
\* silence command, and once no loop is left the last message the sink was
\* given belongs to a silence command, not to an event.
C27_SilenceLast ==
    /\ \A t \in Threads :
          th[t].pc \in {"on_finished", "done"} => IsSoundOff(th[t].tail)
    /\ Live = {} /\ Spawned # {} => IsSoundOff(ser.last)

\* a loop was cut short by stop() or skip() after it had sent an event, and
\* has exited
C27_Witness ==
    /\ Live = {} /\ ctl.pc = "idle"
    /\ \E t \in Threads :
          /\ Done(t) /\ Len(th[t].sent) >= 1
          /\ th[t].cut \cap {"stop", "skip"} # {}
    /\ IsSoundOff(ser.last)

\* C28: the pending seek target is read and cleared in one step; a target
\* is taken at most once, and it is the target of the last seek() call;
\* applying it re-anchors the loop at now - target and emits one silence
\* command.
C28_SeekConsumedOnce ==
    /\ [](/\ (player.seek_to # None) = (ctl.unseen > 0)
          /\ player.seek_to # None => player.seek_to = ctl.target
          /\ \A t \in Threads : th[t].offs = SilencesDue(t))
    /\ [][ \A t \in Threads :
             /\ th[t].pc \in {"seek_top", "wait_seek"}
                    /\ th'[t].pc # th[t].pc =>
                  /\ th'[t].seek = player.seek_to
                  /\ th'[t].seek \in {None, ctl.target}
                  /\ player'.seek_to = None
             /\ th'[t].seeks # th[t].seeks =>
                  /\ th'[t].seeks = th[t].seeks + 1
                  /\ th[t].seek # None
                  /\ th'[t].t0 = now - th[t].seek
                  /\ th'[t].i = find_index(th[t].messages, th[t].seek)
                  /\ th'[t].pc \in {"seek_top_off", "wait_off"} ]_vars

\* two seek() calls were made before the loop's next check point; the loop
\* took one target, the second call's, and emitted one silence command
C28_Witness ==
    \E t \in Threads :
        /\ th[t].covered = 2 /\ th[t].seeks = 1 /\ th[t].offs = 1
        /\ th[t].target = ctl.target /\ ctl.last = "seek"
        /\ th[t].t0 = now - th[t].target

\* loop t has seen the stop flag and is on its way out
Leaving(t) == th[t].pc \in {"stop_pos", "fin", "fin_off", "on_finished"}

\* C26: once stop() or skip() has been called and play() is not called
\* again, a pacing loop that is waiting for an event's time or at the pause
\* gate terminates, and it sends no event after it has seen the flag.
C26_StopTerminates ==
    /\ \A t \in Threads : (Alive(t) /\ player.stop_flag) ~> Done(t)
    /\ [][ \A t \in Threads : Leaving(t) => th'[t].sent = th[t].sent ]_vars

\* loop t writes an event to the sink in this step
Sends(t) == Len(th'[t].sent) = Len(th[t].sent) + 1

\* the stored bytes of the event loop t is about to transform or send
RawOf(t) == MsgAt(th[t].messages, th[t].cur)[2]

\* set_volume writes nothing to the sink and makes no loop send
SetVolumeSilent ==
    CallStep("set_volume") =>
        /\ ser' = ser /\ ctl'.wrote = << >>
        /\ \A t \in Threads : th'[t].sent = th[t].sent /\ th'[t].out = th[t].out
                                /\ th'[t].pc = th[t].pc

\* C23 (as stated): once set_volume(g) has returned, every event the loop
\* sends is scaled by g, the gain in force when it is sent; set_volume
\* sends nothing and re-sends nothing.
C23_GainAtSend ==
    [][ /\ SetVolumeSilent
        /\ \A t \in Threads :
              Sends(t) => ser'.last = apply_volume(RawOf(t), player.volume)
      ]_vars

\* C23 (amended): every event is scaled by the gain in force when its
\* transform is applied (line 306), and is then sent as transformed; an
\* event transformed before set_volume(g) returned and sent after it still
\* carries the earlier gain.  set_volume sends nothing and re-sends nothing.
C23_GainAtTransform ==
    [][ /\ SetVolumeSilent
        /\ \A t \in Threads :
              /\ th[t].pc = "apply" /\ th'[t].pc = "send" =>
                    th'[t].data = apply_volume(RawOf(t), player.volume)
              /\ Sends(t) =>
                    /\ ser'.last = th[t].data
                    /\ th'[t].out = Append(th[t].out, th[t].data)
      ]_vars

\* a loop has sent the channel-volume event of value 100 as 50, halved by
\* the gain a set_volume call had set before
C23_Witness ==
    /\ \E t \in Threads :
          /\ th[t].out # << >>
          /\ th[t].out[Len(th[t].out)] = Volume(0, 50)
          /\ "set_volume" \in th[t].calls
    /\ player.volume = <<GainDen \div 2, GainDen>>
    /\ ser.last = Volume(0, 50)

\* the bytes what was sent for raw may be: raw itself, or for a
\* channel-volume message of three bytes, raw with another value byte
OnlyValueChanged(raw, data) ==
    IF Len(raw) = 3 /\ raw[1] \in 176 .. 191 /\ raw[2] = 7
    THEN Len(data) = 3 /\ data[1] = raw[1] /\ data[2] = raw[2]
    ELSE data = raw

\* C30: the transform returns a message that is not a 3-byte control change
\* 7 as it is and changes only the value byte of one that is; sending
\* modifies neither the loop's sequence nor the stored one.
C30_TransformFrame ==
    /\ [](\A t \in Threads :
            /\ th[t].pc = "send" => OnlyValueChanged(RawOf(t), th[t].data)
            /\ \A k \in 1 .. Len(th[t].out) :
                  OnlyValueChanged(MsgAt(th[t].messages, th[t].sent[k])[2],
                                   th[t].out[k]))
    /\ [][ \A t \in Threads :
              th[t].pc \in {"apply", "send"} /\ th'[t].pc # th[t].pc =>
                  /\ th'[t].messages = th[t].messages
                  /\ player'.messages = player.messages ]_vars

\* a loop has sent a program change and a controller-10 message unchanged
\* and a channel-volume message with its value scaled, under a gain of 1/2
C30_Witness ==
    \E t \in Threads :
        /\ th[t].messages = TrackMixed
        /\ th[t].out = <<<<192, 5>>, <<176, 10, 100>>, Volume(0, 32)>>
        /\ player.messages = TrackMixed

\* v * g rounded to the nearest integer, for the gain g = <<k, den>> (with
\* den = 127 no product lies halfway between two integers)
Rounded(v, g) == (2 * v * g[1] + g[2]) \div (2 * g[2])

\* C29: for a channel-volume message of value v and a gain g the slider can
\* set, the value byte of the transformed message is round(v * g) clamped
\* to [0, 127].
C29_ValueIsRounded ==
    ctl.data # << >> =>
        ctl.data[3] = Max(0, Min(127, Rounded(ctl.raw[3], ctl.gain)))

\* the first k bytes of data
Prefix(data, k) == [j \in 1 .. k |-> data[j]]

\* C25: writes to the sink are serialised.  While a thread is writing a
\* message the port has received exactly the bytes of that message written
\* so far, every message arrives whole, and the port is closed or replaced
\* only while no other thread is inside the lock and no message is half
\* written.
C25_WritesSerialised ==
    /\ Cardinality({w \in Writers : ser.job[w].in}) <= 1
    /\ \A w \in Writers :
          /\ ser.job[w].in /\ ser.job[w].op = "send" =>
                ser.log = Prefix(ser.job[w].queue[1], ser.job[w].k)
          /\ ser.job[w].in /\ ser.job[w].op \in {"connect", "disconnect"} =>
                ser.log = << >>
    /\ lock_free(ser) => ser.log = << >>
    /\ ser.last \in {<< >>} \cup SinkEvents
                    \cup {sound_off_bytes(ch) : ch \in 0 .. 15}

\* the loop has written the first byte of an event while the other thread,
\* in the middle of a silence command, is waiting for the lock
C25_Witness ==
    /\ ser.job["loop"].in /\ ser.job["loop"].k = 1 /\ ser.open
    /\ ser.job["ui"].op = "send" /\ ~ser.job["ui"].in
    /\ Len(ser.job["ui"].queue) \in 1 .. 15
    /\ ser.last = sound_off_bytes(16 - Len(ser.job["ui"].queue) - 1)

\* the places <<n, j>> of the messages of a file, the message at a place and
\* its absolute tick (the sum of the delta times up to it in its track)
PlacesOf(mid) ==
    UNION {{<<n, j>> : j \in 1 .. Len(mid.tracks[n])} :
              n \in 1 .. Len(mid.tracks)}

MsgOf(mid, at) == mid.tracks[at[1]][at[2]]

RECURSIVE TickOf(_, _)
TickOf(mid, at) ==
    IF at[2] = 0 THEN 0
    ELSE MsgOf(mid, at).time + TickOf(mid, <<at[1], at[2] - 1>>)

\* place a comes before place b in the merge input
MergedBefore(a, b) == a[1] < b[1] \/ (a[1] = b[1] /\ a[2] < b[2])

\* C31: the flattened sequence holds every non-meta message with non-empty
\* bytes exactly once and no other, in the order of absolute ticks;
\* messages at the same tick are in the order of the merge input, earlier
\* track first and, within a track, in the track's order.
C31_FlattenKeepsEvents ==
    ctl.flatN >= 1 =>
        LET mid == ctl.mid
            at  == ctl.flatAt
            n   == Len(ctl.flat)
        IN  /\ Len(at) = n
            /\ \A k \in 1 .. n :
                  /\ at[k] \in PlacesOf(mid)
                  /\ MsgOf(mid, at[k]).kind = "note"
                  /\ ctl.flat[k][2] = MsgOf(mid, at[k]).raw
                  /\ ctl.flat[k][2] # << >>
            /\ \A a \in PlacesOf(mid) :
                  Cardinality({k \in 1 .. n : at[k] = a})
                     = IF MsgOf(mid, a).kind = "note"
                          /\ MsgOf(mid, a).raw # << >>
                       THEN 1 ELSE 0
            /\ \A j, k \in 1 .. n :
                  j < k => \/ TickOf(mid, at[j]) < TickOf(mid, at[k])
                           \/ /\ TickOf(mid, at[j]) = TickOf(mid, at[k])
                              /\ MergedBefore(at[j], at[k])

\* two tracks with two notes each, the second track's first note at the
\* tick of the first track's second note: the output has all four, the
\* first track's note before the second track's at the tie
C31_Witness ==
    /\ ctl.flatN >= 1
    /\ ctl.mid.tracks = <<<<Note(1, NoteOn(62)), Note(0, NoteOn(60))>>,
                          <<Note(1, NoteOn(60)), Note(1, NoteOn(62))>>>>
    /\ ctl.flatAt = <<<<1, 1>>, <<1, 2>>, <<2, 1>>, <<2, 2>>>>

\* the tempo in force over the tick from x to x + 1: that of the set_tempo
\* message last in the merge order among those at ticks <= x
TempoChangesUpTo(mid, x) ==
    {a \in PlacesOf(mid) :
        MsgOf(mid, a).kind = "tempo" /\ TickOf(mid, a) <= x}

TempoAt(mid, x) ==
    LET cs == TempoChangesUpTo(mid, x)
    IN  IF cs = {} THEN DefaultTempo
        ELSE MsgOf(mid, CHOOSE a \in cs : \A b \in cs \ {a} :
                \/ TickOf(mid, b) < TickOf(mid, a)
                \/ TickOf(mid, b) = TickOf(mid, a) /\ MergedBefore(b, a)).tempo

\* the time of tick x: every tick before it at the tempo then in force
RECURSIVE TimeOfTick(_, _)
TimeOfTick(mid, x) ==
    IF x = 0 THEN 0 ELSE TimeOfTick(mid, x - 1) + TempoAt(mid, x - 1)

\* the largest tick the tick-by-tick sum is taken for
MaxSummedTick == 8

\* C32: the time of an entry is the time of the entry before it plus the
\* tick gap at the tempo in force before the entry; a tempo change counts
\* for the ticks after it only, so an event's time is the sum over the
\* ticks before it of the tempo in force at each, and an event at the tick
\* of a tempo change has the same time on either side of it in the merge.
C32_TempoFromItsTickOn ==
    ctl.flatN >= 1 =>
        \A k \in 1 .. Len(ctl.flat) :
            LET x == TickOf(ctl.mid, ctl.flatAt[k])
            IN  /\ x <= MaxSummedTick =>
                      ctl.flat[k][1] = TimeOfTick(ctl.mid, x)
                /\ \A j \in 1 .. Len(ctl.flat) :
                      TickOf(ctl.mid, ctl.flatAt[j]) = x =>
                          ctl.flat[j][1] = ctl.flat[k][1]

\* a note before and a note after a tempo change at tick 1, all at the same
\* tick, and a note one tick later at the new tempo
C32_Witness ==
    /\ ctl.flatN >= 1
    /\ ctl.mid.tracks = <<<<Note(1, NoteOn(60)), Note(1, NoteOn(62))>>,
                          <<Tempo(1, 1000000), Note(0, NoteOn(62))>>>>
    /\ ctl.flat = <<<<500000, NoteOn(60)>>, <<500000, NoteOn(62)>>,
                    <<1500000, NoteOn(62)>>>>

\* C34: an event is sent only when now minus the loop's reference is at
\* least the event's time, also right after a seek taken in the wait loop.
C34_NeverEarly ==
    [][ \A t \in Threads :
          Sends(t) =>
              now - th[t].t0 >= MsgTime(th[t].messages, th[t].cur) ]_vars

\* C35: a loop spawned by a play() that directly follows load() or stop(),
\* with no seek() called since, starts emitting at the first event.
C35_StartsAtFirstEvent ==
    \A t \in Threads :
        /\ th[t].prev \in {"load", "stop"}
        /\ "seek" \notin th[t].calls
        /\ th[t].sent # << >>
        => th[t].sent[1] = 0

\* C37: once pause() has put the transport into Paused, a pacing loop sends
\* at most one more event before the next play(), stop() or skip().
C37_OneEventAfterPause ==
    \A t \in Threads : th[t].held => th[t].burst <= 1

\* pause() returned while the loop was past the gate: the loop has sent the
\* event it was at and is now blocked at the gate in front of the next one
C37_Witness ==
    \E t \in Threads :
        /\ th[t].held /\ th[t].burst = 1
        /\ th[t].pc = "gate" /\ ~player.pause_evt /\ player.state = PAUSED
        /\ th[t].it < th[t].n

\* C39: the shared position is within [0, duration] of the loaded sequence
\* in every state.
C39_PositionInRange ==
    0 <= player.pos /\ player.pos <= player.duration

\* C36: time spent Paused does not count as playback time: a loop that was
\* started at position 0 and took no seek sends an event only when the time
\* that has passed outside Paused since play() is at least the event's
\* time, so nothing that fell due during the pause is sent at once on
\* resume.  The event a loop sends while the state is still Paused (C37)
\* is left out.
C36_PausedTimeNotCounted ==
    [][ \A t \in Threads :
          (Sends(t) /\ ~th[t].held /\ "seek" \notin th[t].calls) =>
              ctl.run >= MsgTime(th[t].messages, th[t].cur) ]_vars

\* the statements of _run at which the thread sleeps or compares the clock
\* (lines 292-298), is blocked on the gate (line 276), writes to the sink
\* (lines 266, 289, 309, 322) or calls back (lines 315, 324)
OutsideSteps ==
    {"gate", "wait_seek2", "seek_top_off", "wait_off", "send", "fin_off",
     "on_position", "on_finished"}

\* the statements of _run that read or write the shared fields
FieldSteps == {"start", "seek_top", "wait_seek", "stop_pos", "set_pos", "fin"}

\* C33: a pacing loop does not hold the transport lock while it sleeps, is
\* blocked on the gate, writes to the sink or calls on_position or
\* on_finished; it holds it only at the statements that snapshot or update
\* the shared fields.
C33_LockOnlyForFields ==
    \A t \in Threads :
        /\ th[t].pc \in OutsideSteps => ~th[t].lk
        /\ th[t].lk => th[t].pc \in FieldSteps

\* a loop is blocked on the closed gate, after it has updated the position
\* under the lock, while the control thread is inside a block of the lock
C33_Witness ==
    \E t \in Threads :
        /\ th[t].pc = "gate" /\ ~player.pause_evt /\ ~th[t].lk
        /\ th[t].sent # << >>
        /\ ctl.lk

\* a thread is about to enter a block of the transport lock
LoopWantsLock(t) == Alive(t) /\ th[t].pc \in FieldSteps /\ ~th[t].lk
CtlWantsLock     == ~ctl.lk /\ ctl.pc = "stop_locked"

\* the steps of the control thread inside a block, or into the inner one
CtlMoves ==
    \/ LockPause \/ LockSeek \/ LockLoad \/ LockPlay \/ LockStop
    \/ CtlSinkAcquire

\* C38: no interleaving of the control calls with the pacing loops
\* deadlocks.  A loop inside a block of either lock can run it; the control
\* thread inside a block can run it too, or it is pause() waiting for the
\* sink lock, which a loop holds.  The sink lock is taken inside the
\* transport lock only (by pause()), never the other way round, and no
\* thread is at the gate while it holds a lock.
C38_NoDeadlock ==
    /\ \A t \in Threads :
          /\ th[t].lk \/ th[t].sk => ENABLED LockRun(t)
          /\ th[t].sk => ~th[t].lk /\ ~LoopWantsLock(t)
          /\ th[t].pc = "gate" => ~th[t].lk /\ ~th[t].sk
    /\ ctl.lk \/ ctl.sk =>
          \/ \E t \in Threads : th[t].sk
          \/ ENABLED CtlMoves
    /\ ctl.sk => ~CtlWantsLock
    /\ ctl.sk /\ ctl.lk => Idle /\ player.state = PLAYING

\* pause() is inside both locks while a loop waits for the transport lock
C38_Witness ==
    /\ ctl.lk /\ ctl.sk /\ Idle
    /\ \E t \in Threads : LoopWantsLock(t)

\* the sequence s without the element x
Without(s, x) == SelectSeq(s, LAMBDA y : y # x)

\* C40: a click on the remove button of a row removes that row's path from
\* the item list and that row from the row list, and nothing else; the
\* other paths and rows keep their order.
C40_RemovesThatRow ==
    ctl.queue.hit # NoRow =>
        /\ ctl.queue.items = Without(ctl.queue.was, ctl.queue.hit.path)
        /\ ctl.queue.rows  = Without(ctl.queue.wasRows, ctl.queue.hit.id)

=============================================================================
